---- MODULE Spec2Model ----
(***************************************************************************)
(* Model of the UdonNative Ruby extension (ext/udon/src/lib.rs): the       *)
(* serializer event_to_ruby_hash with its helpers slice_to_rstring and     *)
(* span_to_hash, and the one-shot driver parse.                            *)
(*                                                                         *)
(* The streaming parser, its event queue and its chunk arena belong to the *)
(* udon_core crate.  Their contents are inputs of this model: feed and     *)
(* finish enqueue arbitrary events, and an arena resolves a slice to the   *)
(* bytes it covers or to "not found".                                      *)
(*                                                                         *)
(* TLC's integers are 32 bits wide, so the u32 of a span and the i64 of a  *)
(* Ruby Integer are modelled at the scaled widths U32Bits and I64Bits      *)
(* (U32Bits < I64Bits, as 32 < 64).                                        *)
(***************************************************************************)
EXTENDS Integers, Sequences, FiniteSets, TLC

VARIABLES
    pc,          \* position of the running operation
    calls,       \* number of parse calls started; the id of the current parser
    input,       \* the bytes of the RString handed to parse
    parser,      \* the StreamingParser owned by the running parse call
    result,      \* the RArray under construction
    ret,         \* what parse returned
    feedLog,     \* history: the argument of every feed call of this parse call
    readLog,     \* history: what every read call of this parse call returned
    resolveLog,  \* history: the circumstances of every arena.resolve call
    ev,          \* serializer alone: the event handed to event_to_ruby_hash
    ar,          \* serializer alone: the arena handed to event_to_ruby_hash
    out          \* serializer alone: the hash event_to_ruby_hash returned

vars == <<pc, calls, input, parser, result, ret, feedLog, readLog, resolveLog,
          ev, ar, out>>

drvVars == <<calls, input, parser, result, ret, feedLog, readLog, resolveLog>>
serVars == <<ev, ar, out>>

---------------------------------------------------------------------------
(* Bounds *)

MaxEvents == 2      \* events one parse call's parser emits, at most
MaxCalls == 2       \* parse calls in one behaviour, at most
U32Bits == 8        \* scaled width of u32
I64Bits == 16       \* scaled width of i64

---------------------------------------------------------------------------
(* Rust and Ruby values *)

\* Rust scalars, tagged by their type
Bool(b) == [bool |-> b]
I64(n) == [i64 |-> n]
F64(x) == [f64 |-> x]

None == [some |-> FALSE]
Some(x) == [some |-> TRUE, val |-> x]

Ok(x) == [ok |-> TRUE, val |-> x]
Err(e) == [ok |-> FALSE, error |-> e]

qnil == [t |-> "nil"]
SymbolNew(name) == [t |-> "sym", name |-> name]
RBool(b) == [t |-> "bool", b |-> b]
integer_from_i64(n) == [t |-> "int", i |-> n]
float_from_f64(f) == [t |-> "float", f |-> f]
\* RString::from_slice copies the bytes into a binary string.
RStringFromSlice(bytes) == [t |-> "str", enc |-> "binary", bytes |-> bytes]
\* RString::new copies a Rust &str into a UTF-8 string.
RStringNew(text) == [t |-> "str", enc |-> "utf8", text |-> text]

\* RArray::push raises FrozenError on a frozen array; RArray::new is not frozen.
RArrayNew == [frozen |-> FALSE, items |-> <<>>]
push(array, value) ==
    IF array.frozen THEN Err("FrozenError")
    ELSE Ok([array EXCEPT !.items = Append(@, value)])

RHashNew == [k \in {} |-> qnil]
aset(hash, key, value) ==
    [k \in (DOMAIN hash) \cup {key} |-> IF k = key THEN value ELSE hash[k]]

\* u32 as i64: zero extension, then the two's complement reading at i64's width.
U32AsI64(u) ==
    LET m == u % (2 ^ I64Bits)
    IN  IF m >= 2 ^ (I64Bits - 1) THEN m - 2 ^ I64Bits ELSE m

---------------------------------------------------------------------------
(* The chunk arena of udon_core: an append-only sequence of byte chunks.   *)
(* A ChunkSlice is [chunk, off, len].                                      *)

resolve(arena, slice) ==
    IF /\ slice.chunk \in 1..Len(arena)
       /\ slice.off + slice.len <= Len(arena[slice.chunk])
    THEN Some(SubSeq(arena[slice.chunk], slice.off + 1, slice.off + slice.len))
    ELSE None

---------------------------------------------------------------------------
(* lib.rs *)

\* as if the bytes went through a NUL-terminated C string
slice_to_rstring_Truncating(arena, slice) ==
    LET r == resolve(arena, slice)
        nul == {i \in 1..Len(r.val) : r.val[i] = 0}
        cut == IF nul = {} THEN Len(r.val)
               ELSE (CHOOSE i \in nul : \A j \in nul : i <= j) - 1
    IN  IF r.some THEN RStringFromSlice(SubSeq(r.val, 1, cut)) ELSE RStringNew("")

slice_to_rstring(arena, slice) ==
    LET r == resolve(arena, slice)
    IN  IF r.some THEN RStringFromSlice(r.val) ELSE RStringNew("")

span_to_hash_Narrow(start, end) ==
    LET narrow(u) == IF u >= 2 ^ (U32Bits - 1) THEN u - 2 ^ U32Bits ELSE u
    IN  aset(aset(RHashNew, "start", integer_from_i64(narrow(start))),
             "end", integer_from_i64(narrow(end)))

span_to_hash(start, end) ==
    aset(aset(RHashNew, "start", integer_from_i64(U32AsI64(start))),
         "end", integer_from_i64(U32AsI64(end)))

\* Option<ChunkSlice>: name.map(|n| slice_to_rstring(arena, n).as_value())
\*                         .unwrap_or_else(|| ruby.qnil().as_value())
opt_slice_to_value_EmptyAsNil(arena, opt) ==
    LET r == IF opt.some THEN resolve(arena, opt.val) ELSE None
    IN  IF r.some /\ r.val # <<>> THEN RStringFromSlice(r.val) ELSE qnil

opt_slice_to_value(arena, opt) ==
    IF opt.some THEN slice_to_rstring(arena, opt.val) ELSE qnil

\* ParseErrorCode::message() of udon_core: a human-readable sentence.
message(code) ==
    CASE code = "UnexpectedEof"         -> "unexpected end of input"
      [] code = "UnexpectedChar"        -> "unexpected character"
      [] code = "Unclosed"              -> "unclosed construct"
      [] code = "UnclosedStringValue"   -> "unclosed string value"
      [] code = "UnclosedArray"         -> "unclosed array"
      [] code = "UnclosedFreeform"      -> "unclosed freeform block"
      [] code = "UnclosedText"          -> "unclosed text"
      [] code = "UnclosedInterpolation" -> "unclosed interpolation"
      [] code = "NoTabs"                -> "tabs are not allowed in indentation"

\* The type symbol each match arm stores under :type.
TypeTag(kind) ==
    CASE kind = "ElementStart"      -> "element_start"
      [] kind = "ElementEnd"        -> "element_end"
      [] kind = "EmbeddedStart"     -> "embedded_start"
      [] kind = "EmbeddedEnd"       -> "embedded_end"
      [] kind = "Attribute"         -> "attribute"
      [] kind = "ArrayStart"        -> "array_start"
      [] kind = "ArrayEnd"          -> "array_end"
      [] kind = "NilValue"          -> "nil_value"
      [] kind = "BoolValue"         -> "bool_value"
      [] kind = "IntegerValue"      -> "integer_value"
      [] kind = "FloatValue"        -> "float_value"
      [] kind = "RationalValue"     -> "rational_value"
      [] kind = "ComplexValue"      -> "complex_value"
      [] kind = "StringValue"       -> "string_value"
      [] kind = "QuotedStringValue" -> "quoted_string_value"
      [] kind = "Text"              -> "text"
      [] kind = "Comment"           -> "comment"
      [] kind = "RawContent"        -> "raw_content"
      [] kind = "DirectiveStart"    -> "directive_start"
      [] kind = "DirectiveEnd"      -> "directive_end"
      [] kind = "InlineDirective"   -> "inline_directive"
      [] kind = "Interpolation"     -> "interpolation"
      [] kind = "IdReference"       -> "id_reference"
      [] kind = "AttributeMerge"    -> "attribute_merge"
      [] kind = "FreeformStart"     -> "freeform_start"
      [] kind = "FreeformEnd"       -> "freeform_end"
      [] kind = "Error"             -> "error"

\* The arms of the match, up to the span every arm stores last.
event_fields(arena, event) ==
    LET k == event.kind
        h == aset(RHashNew, "type", SymbolNew(TypeTag(k)))
    IN  CASE k \in {"ElementStart", "EmbeddedStart"} ->
                aset(h, "name", opt_slice_to_value(arena, event.name))
          [] k = "Attribute" ->
                aset(h, "key", slice_to_rstring(arena, event.key))
          [] k = "NilValue" ->
                aset(h, "value", qnil)
          [] k = "BoolValue" ->
                aset(h, "value", RBool(event.value.bool))
          [] k = "IntegerValue" ->
                aset(h, "value", integer_from_i64(event.value.i64))
          [] k = "FloatValue" ->
                aset(h, "value", float_from_f64(event.value.f64))
          [] k = "RationalValue" ->
                aset(h, "value",
                     RStringNew(ToString(event.numerator.i64) \o "/"
                                \o ToString(event.denominator.i64)))
          [] k = "ComplexValue" ->
                aset(h, "value", RStringNew(event.real.f64 \o "+" \o event.imag.f64 \o "i"))
          [] k \in {"StringValue", "QuotedStringValue"} ->
                aset(h, "value", slice_to_rstring(arena, event.value))
          [] k \in {"Text", "Comment", "RawContent"} ->
                aset(h, "content", slice_to_rstring(arena, event.content))
          [] k = "DirectiveStart" ->
                aset(aset(h, "name", slice_to_rstring(arena, event.name)),
                     "namespace", opt_slice_to_value(arena, event.namespace))
          [] k = "InlineDirective" ->
                aset(aset(aset(h, "name", slice_to_rstring(arena, event.name)),
                          "namespace", opt_slice_to_value(arena, event.namespace)),
                     "content", slice_to_rstring(arena, event.content))
          [] k = "Interpolation" ->
                aset(h, "expression", slice_to_rstring(arena, event.expression))
          [] k \in {"IdReference", "AttributeMerge"} ->
                aset(h, "id", slice_to_rstring(arena, event.id))
          [] k = "Error" ->
                aset(h, "message", RStringNew(message(event.code)))
          [] k \in {"ElementEnd", "EmbeddedEnd", "ArrayStart", "ArrayEnd",
                    "DirectiveEnd", "FreeformStart", "FreeformEnd"} -> h

\* the Embedded arm pasted from the Element arm with its type symbol unchanged
event_to_ruby_hash_PastedTag(arena, event) ==
    LET h == aset(event_fields(arena, event), "span",
                  span_to_hash(event.span.start, event.span.end))
    IN  IF event.kind = "EmbeddedStart"
        THEN aset(h, "type", SymbolNew("element_start"))
        ELSE h

\* the Start and Attribute arms storing an :id and a :value they do not have
event_to_ruby_hash_ExtraFields(arena, event) ==
    LET h == aset(event_fields(arena, event), "span",
                  span_to_hash(event.span.start, event.span.end))
    IN  CASE event.kind \in {"ElementStart", "EmbeddedStart"} -> aset(h, "id", qnil)
          [] event.kind = "Attribute" -> aset(h, "value", qnil)
          [] OTHER -> h

event_to_ruby_hash(arena, event) ==
    aset(event_fields(arena, event), "span",
         span_to_hash(event.span.start, event.span.end))

\* The slices an arm hands to slice_to_rstring, in the order of the calls.
event_slices(event) ==
    LET k == event.kind
        opt(o) == IF o.some THEN <<o.val>> ELSE <<>>
    IN  CASE k \in {"ElementStart", "EmbeddedStart"} -> opt(event.name)
          [] k = "Attribute" -> <<event.key>>
          [] k \in {"StringValue", "QuotedStringValue"} -> <<event.value>>
          [] k \in {"Text", "Comment", "RawContent"} -> <<event.content>>
          [] k = "DirectiveStart" -> <<event.name>> \o opt(event.namespace)
          [] k = "InlineDirective" ->
                <<event.name>> \o opt(event.namespace) \o <<event.content>>
          [] k = "Interpolation" -> <<event.expression>>
          [] k \in {"IdReference", "AttributeMerge"} -> <<event.id>>
          [] OTHER -> <<>>

---------------------------------------------------------------------------
(* The events udon_core can hand to the serializer *)

EventKinds ==
    {"ElementStart", "ElementEnd", "EmbeddedStart", "EmbeddedEnd", "Attribute",
     "ArrayStart", "ArrayEnd", "NilValue", "BoolValue", "IntegerValue",
     "FloatValue", "RationalValue", "ComplexValue", "StringValue",
     "QuotedStringValue", "Text", "Comment", "RawContent", "DirectiveStart",
     "DirectiveEnd", "InlineDirective", "Interpolation", "IdReference",
     "AttributeMerge", "FreeformStart", "FreeformEnd", "Error"}

ErrorCodes ==
    {"UnexpectedEof", "UnexpectedChar", "Unclosed", "UnclosedStringValue",
     "UnclosedArray", "UnclosedFreeform", "UnclosedText",
     "UnclosedInterpolation", "NoTabs"}

\* The wire names the interface description gives the error kinds.
WireName(code) ==
    CASE code = "UnexpectedEof"         -> "unexpected_eof"
      [] code = "UnexpectedChar"        -> "unexpected_char"
      [] code = "Unclosed"              -> "unclosed"
      [] code = "UnclosedStringValue"   -> "unclosed_string_value"
      [] code = "UnclosedArray"         -> "unclosed_array"
      [] code = "UnclosedFreeform"      -> "unclosed_freeform"
      [] code = "UnclosedText"          -> "unclosed_text"
      [] code = "UnclosedInterpolation" -> "unclosed_interpolation"
      [] code = "NoTabs"                -> "no_tabs"

U32Max == 2 ^ U32Bits - 1
I64Min == -(2 ^ (I64Bits - 1))
I64Max == 2 ^ (I64Bits - 1) - 1

\* InlineDirectiveData of udon_core: name, optional namespace, raw flag,
\* content, span.
InlineDirectiveData(name, namespace, raw, content, span) ==
    [kind |-> "InlineDirective", name |-> name, namespace |-> namespace,
     raw |-> raw, content |-> content, span |-> span]

\* Every event built from the given payload values.
EventsOver(spans, slices, opts, ints, floats, bools, codes) ==
    UNION {
      {[kind |-> k, span |-> sp] :
          k \in {"ElementEnd", "EmbeddedEnd", "ArrayStart", "ArrayEnd", "NilValue",
                 "DirectiveEnd", "FreeformStart", "FreeformEnd"}, sp \in spans},
      {[kind |-> k, name |-> n, span |-> sp] :
          k \in {"ElementStart", "EmbeddedStart"}, n \in opts, sp \in spans},
      {[kind |-> "Attribute", key |-> s, span |-> sp] : s \in slices, sp \in spans},
      {[kind |-> "BoolValue", value |-> b, span |-> sp] : b \in bools, sp \in spans},
      {[kind |-> "IntegerValue", value |-> i, span |-> sp] : i \in ints, sp \in spans},
      {[kind |-> "FloatValue", value |-> f, span |-> sp] : f \in floats, sp \in spans},
      {[kind |-> "RationalValue", numerator |-> n, denominator |-> d, span |-> sp] :
          n \in ints, d \in ints, sp \in spans},
      {[kind |-> "ComplexValue", real |-> r, imag |-> i, span |-> sp] :
          r \in floats, i \in floats, sp \in spans},
      {[kind |-> k, value |-> s, span |-> sp] :
          k \in {"StringValue", "QuotedStringValue"}, s \in slices, sp \in spans},
      {[kind |-> k, content |-> s, span |-> sp] :
          k \in {"Text", "Comment", "RawContent"}, s \in slices, sp \in spans},
      {[kind |-> "DirectiveStart", name |-> s, namespace |-> n, span |-> sp] :
          s \in slices, n \in opts, sp \in spans},
      {InlineDirectiveData(s, n, b, c, sp) :
          s \in slices, n \in opts, b \in bools, c \in slices, sp \in spans},
      {[kind |-> "Interpolation", expression |-> s, span |-> sp] :
          s \in slices, sp \in spans},
      {[kind |-> k, id |-> s, span |-> sp] :
          k \in {"IdReference", "AttributeMerge"}, s \in slices, sp \in spans},
      {[kind |-> "Error", code |-> c, span |-> sp] : c \in codes, sp \in spans}
    }

OptionsOf(slices) == {None} \cup {Some(s) : s \in slices}

Whole == [chunk |-> 1, off |-> 0, len |-> 3]     \* the first three bytes
Empty == [chunk |-> 1, off |-> 1, len |-> 0]     \* a present, empty range
Tail4 == [chunk |-> 1, off |-> 2, len |-> 2]     \* in range of a 4-byte chunk only
Stale == [chunk |-> 2, off |-> 0, len |-> 1]     \* a chunk the arena never held

Slices == {Whole, Empty, Tail4, Stale}

Spans ==
    {[start |-> 0, end |-> 0],
     [start |-> 3, end |-> 7],
     [start |-> 2 ^ (U32Bits - 1), end |-> U32Max]}

I64s == {I64(n) : n \in {I64Min, -1, 0, 1, I64Max}}
\* an f64 stands as the text Display prints for it
F64s == {F64(x) : x \in {"0", "1.5", "NaN"}}

\* "div", and four bytes that are not valid UTF-8 and hold a NUL
Inputs == {<<100, 105, 118>>, <<255, 0, 34, 128>>}
Arenas == {<<>>} \cup {<<i>> : i \in Inputs}

AllEvents ==
    EventsOver(Spans, Slices, OptionsOf(Slices), I64s, F64s,
               {Bool(TRUE), Bool(FALSE)}, ErrorCodes)

\* The events the parser of the driver draws from: every kind, each optional
\* field absent and present, a resolvable and a stale slice.
DriverEvents ==
    EventsOver({[start |-> 3, end |-> 7]}, {Whole}, {None, Some(Stale)},
               {I64(1)}, {F64("1.5")}, {Bool(TRUE)}, {"NoTabs"})

SeqsUpTo(S, n) == UNION {[1..m -> S] : m \in 0..n}

---------------------------------------------------------------------------
(* StreamingParser of udon_core, as parse uses it *)

NoParser == [id |-> 0, alive |-> FALSE, capacity |-> 0, arena |-> <<>>,
             queue |-> <<>>, emitted |-> <<>>, feeds |-> 0, finishes |-> 0]

StreamingParserNew(id, capacity) ==
    [id |-> id, alive |-> TRUE, capacity |-> capacity, arena |-> <<>>,
     queue |-> <<>>, emitted |-> <<>>, feeds |-> 0, finishes |-> 0]

\* feed appends the bytes to the arena and enqueues the events they complete.
feed(p, bytes, events) ==
    [p EXCEPT !.arena = Append(@, bytes), !.queue = @ \o events,
              !.emitted = @ \o events, !.feeds = @ + 1]

\* finish enqueues what the end of the input completes or faults.
finish(p, events) ==
    [p EXCEPT !.queue = @ \o events, !.emitted = @ \o events, !.finishes = @ + 1]

\* read pops the oldest event, or returns None.
read(p) ==
    IF p.queue = <<>>
    THEN [event |-> None, parser |-> p]
    ELSE [event |-> Some(Head(p.queue)), parser |-> [p EXCEPT !.queue = Tail(@)]]

\* the parser, its queue and its arena freed at the end of its scope
drop(p) == [p EXCEPT !.alive = FALSE, !.arena = <<>>, !.queue = <<>>]

---------------------------------------------------------------------------
(* parse *)

Max(a, b) == IF a >= b THEN a ELSE b

capacity(bytes) == Max(Len(bytes) \div 50, 64)

NotReturned == [returned |-> FALSE]
Returned(r) == [returned |-> TRUE, res |-> r]

\* What one resolve call sees: the parser the event was read from, the parser
\* whose arena is read, and that parser's state.
ResolveCtx(reader, owner) ==
    [reader |-> reader.id, arena |-> owner.id, alive |-> owner.alive,
     feeds |-> owner.feeds, finishes |-> owner.finishes]

\* lines 253-257: the input's bytes, the capacity, the parser
Call ==
    /\ pc = "idle"
    /\ calls < MaxCalls
    /\ \E bytes \in Inputs :
         /\ input' = bytes
         /\ parser' = StreamingParserNew(calls + 1, capacity(bytes))
    /\ calls' = calls + 1
    /\ result' = RArrayNew
    /\ ret' = NotReturned
    /\ feedLog' = <<>>
    /\ readLog' = <<>>
    /\ resolveLog' = {}
    /\ pc' = "feed"
    /\ UNCHANGED serVars

\* feed, and then the loop at once: finish left out
Feed_SkipFinish ==
    /\ pc = "feed"
    /\ \E events \in SeqsUpTo(DriverEvents, MaxEvents) :
         parser' = feed(parser, input, events)
    /\ feedLog' = Append(feedLog, input)
    /\ pc' = "drain"
    /\ UNCHANGED <<calls, input, result, ret, readLog, resolveLog>>
    /\ UNCHANGED serVars

\* line 260
Feed ==
    /\ pc = "feed"
    /\ \E events \in SeqsUpTo(DriverEvents, MaxEvents) :
         parser' = feed(parser, input, events)
    /\ feedLog' = Append(feedLog, input)
    /\ pc' = "finish"
    /\ UNCHANGED <<calls, input, result, ret, readLog, resolveLog>>
    /\ UNCHANGED serVars

\* lines 261-264
Finish ==
    /\ pc = "finish"
    /\ \E events \in SeqsUpTo(DriverEvents, MaxEvents - Len(parser.emitted)) :
         parser' = finish(parser, events)
    /\ result' = RArrayNew
    /\ pc' = "drain"
    /\ UNCHANGED <<calls, input, ret, feedLog, readLog, resolveLog>>
    /\ UNCHANGED serVars

\* the hash put in front of the array instead of at its end
ReadSome_Prepend ==
    /\ pc = "drain"
    /\ LET r == read(parser)
           hash == event_to_ruby_hash(r.parser.arena, r.event.val)
       IN  /\ r.event.some
           /\ readLog' = Append(readLog, r.event)
           /\ resolveLog' = resolveLog \cup
                  {ResolveCtx(r.parser, r.parser) :
                       i \in DOMAIN event_slices(r.event.val)}
           /\ parser' = r.parser
           /\ result' = [result EXCEPT !.items = <<hash>> \o @]
    /\ pc' = "drain"
    /\ UNCHANGED <<calls, input, ret, feedLog>>
    /\ UNCHANGED serVars

\* an Error event turned into a raised exception
ReadSome_RaiseOnError ==
    /\ pc = "drain"
    /\ LET r == read(parser)
           hash == event_to_ruby_hash(r.parser.arena, r.event.val)
           pushed == IF r.event.val.kind = "Error" THEN Err("ParseError")
                     ELSE push(result, hash)
       IN  /\ r.event.some
           /\ readLog' = Append(readLog, r.event)
           /\ resolveLog' = resolveLog \cup
                  {ResolveCtx(r.parser, r.parser) :
                       i \in DOMAIN event_slices(r.event.val)}
           /\ IF pushed.ok
              THEN /\ parser' = r.parser
                   /\ result' = pushed.val
                   /\ ret' = ret
                   /\ pc' = "drain"
              ELSE /\ parser' = drop(r.parser)
                   /\ result' = result
                   /\ ret' = Returned(pushed)
                   /\ pc' = "idle"
    /\ UNCHANGED <<calls, input, feedLog>>
    /\ UNCHANGED serVars

\* lines 265-267: one turn of the loop; the ? returns the error of a failed push
ReadSome ==
    /\ pc = "drain"
    /\ LET r == read(parser)
           hash == event_to_ruby_hash(r.parser.arena, r.event.val)
           pushed == push(result, hash)
       IN  /\ r.event.some
           /\ readLog' = Append(readLog, r.event)
           /\ resolveLog' = resolveLog \cup
                  {ResolveCtx(r.parser, r.parser) :
                       i \in DOMAIN event_slices(r.event.val)}
           /\ IF pushed.ok
              THEN /\ parser' = r.parser
                   /\ result' = pushed.val
                   /\ ret' = ret
                   /\ pc' = "drain"
              ELSE /\ parser' = drop(r.parser)
                   /\ result' = result
                   /\ ret' = Returned(pushed)
                   /\ pc' = "idle"
    /\ UNCHANGED <<calls, input, feedLog>>
    /\ UNCHANGED serVars

\* lines 265, 269-270: read signals none, parse returns Ok(result) and its
\* parser is dropped
ReadNone ==
    /\ pc = "drain"
    /\ LET r == read(parser)
       IN  /\ ~r.event.some
           /\ readLog' = Append(readLog, r.event)
           /\ parser' = drop(r.parser)
    /\ ret' = Returned(Ok(result))
    /\ pc' = "idle"
    /\ UNCHANGED <<calls, input, result, feedLog, resolveLog>>
    /\ UNCHANGED serVars

Init ==
    /\ pc = "idle"
    /\ calls = 0
    /\ input = <<>>
    /\ parser = NoParser
    /\ result = RArrayNew
    /\ ret = NotReturned
    /\ feedLog = <<>>
    /\ readLog = <<>>
    /\ resolveLog = {}
    /\ ev = None
    /\ ar = <<>>
    /\ out = None

Next == Call \/ Feed \/ Finish \/ ReadSome \/ ReadNone

Spec == Init /\ [][Next]_vars

---------------------------------------------------------------------------
(* The serializer alone, on every event and arena *)

Serialize ==
    /\ pc = "ser"
    /\ out' = Some(event_to_ruby_hash(ar, ev.val))
    /\ pc' = "ser_done"
    /\ UNCHANGED <<ev, ar>>
    /\ UNCHANGED drvVars

SerInit ==
    /\ pc = "ser"
    /\ calls = 0
    /\ input = <<>>
    /\ parser = NoParser
    /\ result = RArrayNew
    /\ ret = NotReturned
    /\ feedLog = <<>>
    /\ readLog = <<>>
    /\ resolveLog = {}
    /\ ev \in {Some(e) : e \in AllEvents}
    /\ ar \in Arenas
    /\ out = None

SerNext == Serialize

SerSpec == SerInit /\ [][SerNext]_vars

---------------------------------------------------------------------------
(* Properties of parse and of the serializer *)

Done == pc = "idle" /\ ret.returned
Serialized == pc = "ser_done" /\ out.some

\* the arena of the running call's parser once feed has run
FedArena == <<input>>

IsRString(v) == "t" \in DOMAIN v /\ v.t = "str"
IsEmptyRString(v) ==
    /\ IsRString(v)
    /\ IF "bytes" \in DOMAIN v THEN v.bytes = <<>> ELSE v.text = ""

\* C1: parse calls feed exactly once with the whole input, then finish exactly
\* once, then read until it signals none; the array it returns holds exactly
\* the events read returned, each once and in read's order, and the loop ends
\* at the first read of the empty queue.
C1_ParseFeedsFinishesAndDrains ==
    /\ pc = "feed" => feedLog = <<>> /\ parser.feeds = 0 /\ parser.finishes = 0
    /\ pc = "finish" =>
          /\ feedLog = <<input>> /\ parser.feeds = 1 /\ parser.finishes = 0
          /\ readLog = <<>>
    /\ pc = "drain" =>
          /\ feedLog = <<input>> /\ parser.feeds = 1 /\ parser.finishes = 1
          /\ \A i \in DOMAIN readLog : readLog[i].some
          /\ Len(result.items) = Len(readLog)
          /\ \A i \in DOMAIN readLog :
                result.items[i] = event_to_ruby_hash(FedArena, readLog[i].val)
          /\ parser.queue = <<>> => ENABLED ReadNone /\ ~ENABLED ReadSome
    /\ Done =>
          /\ feedLog = <<input>> /\ parser.feeds = 1 /\ parser.finishes = 1
          /\ ret.res.ok
          /\ Len(readLog) = Len(ret.res.val.items) + 1
          /\ \A i \in DOMAIN readLog : readLog[i].some <=> i < Len(readLog)
          /\ \A i \in DOMAIN ret.res.val.items :
                ret.res.val.items[i] = event_to_ruby_hash(FedArena, readLog[i].val)

C1_Witness ==
    /\ Done
    /\ Len(ret.res.val.items) = 2
    /\ readLog[1].val.kind = "Text"
    /\ readLog[2].val.kind = "ElementEnd"
    /\ ret.res.val.items[1].type = SymbolNew("text")
    /\ ret.res.val.items[2].type = SymbolNew("element_end")

\* C4: when the parser emitted an Error event, parse still returns Ok: the
\* array holds the Error event and every other emitted event, each at the
\* position it was emitted at and serialized as it is.
C4_FaultReturnedAsEvent ==
    (Done /\ \E i \in DOMAIN parser.emitted : parser.emitted[i].kind = "Error") =>
        /\ ret.res.ok
        /\ Len(ret.res.val.items) = Len(parser.emitted)
        /\ \A i \in DOMAIN parser.emitted :
              /\ ret.res.val.items[i] = event_to_ruby_hash(FedArena, parser.emitted[i])
              /\ parser.emitted[i].kind = "Error" =>
                    ret.res.val.items[i].type = SymbolNew("error")

C4_Witness ==
    /\ Done
    /\ ret.res.ok
    /\ Len(parser.emitted) = 2
    /\ parser.emitted[1].kind = "ElementStart"
    /\ parser.emitted[2].kind = "Error"
    /\ ret.res.val.items[1].type = SymbolNew("element_start")
    /\ ret.res.val.items[2].type = SymbolNew("error")

\* C9: every resolve of a parse call reads the arena of that call's own
\* parser, the one the event was read from, while the parser is alive and
\* after its one feed and its one finish; a dropped parser has resolved all
\* it ever will.
C9_ResolveWhileArenaAlive ==
    /\ \A c \in resolveLog :
          /\ c.alive
          /\ c.arena = calls /\ c.reader = calls
          /\ c.feeds = 1 /\ c.finishes = 1
    /\ resolveLog # {} => parser.id = calls
    /\ (calls > 0 /\ ~parser.alive) => pc = "idle" /\ ~ENABLED ReadSome

C9_Witness ==
    /\ Done
    /\ calls = 2
    /\ ~parser.alive
    /\ resolveLog = {[reader |-> 2, arena |-> 2, alive |-> TRUE, feeds |-> 1,
                      finishes |-> 1]}

\* The name the interface gives each event kind.
KindName(kind) ==
    CASE kind = "ElementStart"      -> "element_start"
      [] kind = "ElementEnd"        -> "element_end"
      [] kind = "EmbeddedStart"     -> "embedded_start"
      [] kind = "EmbeddedEnd"       -> "embedded_end"
      [] kind = "Attribute"         -> "attribute"
      [] kind = "ArrayStart"        -> "array_start"
      [] kind = "ArrayEnd"          -> "array_end"
      [] kind = "NilValue"          -> "nil_value"
      [] kind = "BoolValue"         -> "bool_value"
      [] kind = "IntegerValue"      -> "integer_value"
      [] kind = "FloatValue"        -> "float_value"
      [] kind = "RationalValue"     -> "rational_value"
      [] kind = "ComplexValue"      -> "complex_value"
      [] kind = "StringValue"       -> "string_value"
      [] kind = "QuotedStringValue" -> "quoted_string_value"
      [] kind = "Text"              -> "text"
      [] kind = "Comment"           -> "comment"
      [] kind = "RawContent"        -> "raw_content"
      [] kind = "DirectiveStart"    -> "directive_start"
      [] kind = "DirectiveEnd"      -> "directive_end"
      [] kind = "InlineDirective"   -> "inline_directive"
      [] kind = "Interpolation"     -> "interpolation"
      [] kind = "IdReference"       -> "id_reference"
      [] kind = "AttributeMerge"    -> "attribute_merge"
      [] kind = "FreeformStart"     -> "freeform_start"
      [] kind = "FreeformEnd"       -> "freeform_end"
      [] kind = "Error"             -> "error"

\* C2: the serialized event of every kind has a type field naming the kind and
\* a span field that is a hash of exactly start and end, the Integers equal to
\* the event's span start and end.
C2_TypeAndSpan ==
    Serialized =>
        LET h == out.val
            e == ev.val
        IN  /\ {"type", "span"} \subseteq DOMAIN h
            /\ h.type = SymbolNew(KindName(e.kind))
            /\ DOMAIN h.span = {"start", "end"}
            /\ h.span.start = [t |-> "int", i |-> e.span.start]
            /\ h.span.end = [t |-> "int", i |-> e.span.end]

C2_Witness ==
    /\ Serialized
    /\ ev.val.kind = "RationalValue"
    /\ ev.val.span = [start |-> 2 ^ (U32Bits - 1), end |-> U32Max]
    /\ out.val.span.start.i = 2 ^ (U32Bits - 1)
    /\ out.val.span.end.i = U32Max

\* C3 (as claimed): a serialized Error event names its error kind by the
\* kind's wire name in one of its fields, and carries a message and the span.
C3_ErrorNamesItsKind ==
    (Serialized /\ ev.val.kind = "Error") =>
        LET h == out.val
        IN  /\ {"message", "span"} \subseteq DOMAIN h
            /\ \E f \in DOMAIN h \ {"type", "message", "span"} :
                  h[f] \in {SymbolNew(WireName(ev.val.code)),
                            RStringNew(WireName(ev.val.code))}

C6_InlineDirectiveCarriesRawFlag ==
    (Serialized /\ ev.val.kind = "InlineDirective") =>
        LET h == out.val
        IN  /\ {"name", "namespace", "content"} \subseteq DOMAIN h
            /\ \E f \in DOMAIN h : h[f] = RBool(ev.val.raw.bool)

\* C7: the name of an Element or Embedded Start and the namespace of a
\* DirectiveStart or InlineDirective are serialized as nil exactly when they
\* are absent; a present one is a String, also when its bytes are empty.
C7_NilIffAbsent ==
    Serialized =>
        LET h == out.val
            e == ev.val
        IN  /\ e.kind \in {"ElementStart", "EmbeddedStart"} =>
                  /\ "name" \in DOMAIN h
                  /\ h.name = qnil <=> ~e.name.some
                  /\ e.name.some => IsRString(h.name)
            /\ e.kind \in {"DirectiveStart", "InlineDirective"} =>
                  /\ "namespace" \in DOMAIN h
                  /\ h.namespace = qnil <=> ~e.namespace.some
                  /\ e.namespace.some => IsRString(h.namespace)

C7_Witness ==
    /\ Serialized
    /\ ar = <<<<100, 105, 118>>>>
    /\ ev.val.kind = "DirectiveStart"
    /\ ev.val.namespace = Some(Empty)
    /\ resolve(ar, Empty) = Some(<<>>)
    /\ out.val.namespace = RStringFromSlice(<<>>)

\* The fields of an event that hold a slice, with the slice.
ContentFields(e) ==
    LET own == {f \in DOMAIN e : f \notin {"kind", "span", "raw", "code"}}
        slice(f) == IF "some" \in DOMAIN e[f] THEN e[f] ELSE Some(e[f])
    IN  {<<f, slice(f).val>> :
            f \in {g \in own : slice(g).some /\ "chunk" \in DOMAIN slice(g).val}}

\* C8: serialization completes whatever the arena answers; a field whose
\* slice the arena does not find is the empty String, and a field whose slice
\* it resolves is a String of exactly the resolved bytes.
C8_ResolvedBytesOrEmpty ==
    /\ pc = "ser_done" => out.some /\ "span" \in DOMAIN out.val
    /\ Serialized =>
          \A fs \in ContentFields(ev.val) :
              LET r == resolve(ar, fs[2])
                  v == out.val[fs[1]]
              IN  IF r.some
                  THEN /\ IsRString(v)
                       /\ "bytes" \in DOMAIN v
                       /\ v.bytes = r.val
                       /\ Len(v.bytes) = fs[2].len
                  ELSE IsEmptyRString(v)

C8_Witness ==
    /\ Serialized
    /\ ar = <<<<255, 0, 34, 128>>>>
    /\ ev.val.kind = "InlineDirective"
    /\ ev.val.name = Stale
    /\ ev.val.content = Whole
    /\ ~resolve(ar, Stale).some
    /\ IsEmptyRString(out.val.name)
    /\ out.val.content.bytes = <<255, 0, 34>>

\* one event of every kind
KindSamples == DriverEvents

\* C10: every kind's serialized event has a type symbol, and no event of
\* another kind has the same one.
C10_TypeTagTotalAndInjective ==
    /\ {e.kind : e \in KindSamples} = EventKinds
    /\ Serialized =>
          /\ "type" \in DOMAIN out.val
          /\ out.val.type.t = "sym"
          /\ \A e \in KindSamples :
                event_to_ruby_hash(ar, e).type = out.val.type => e.kind = ev.val.kind

C10_Witness ==
    /\ Serialized
    /\ ev.val.kind = "EmbeddedStart"
    /\ out.val.type = SymbolNew("embedded_start")
    /\ \E e \in KindSamples :
          e.kind = "ElementStart" /\ event_to_ruby_hash(ar, e).type # out.val.type

====
